---- MODULE Spec2Model ----
(***************************************************************************)
(* Leader election after Aguilera et al. as implemented in                 *)
(* groupcom/services/LeaderElection.py: the four electors (LeaderElector,  *)
(* StableLeaderElector, OnStableLeaderElector, O1StableLeaderElector), the *)
(* two timer tasks and the message handlers, run by NumPeers processes     *)
(* over an asynchronous datagram network.                                  *)
(*                                                                         *)
(* A peer's address is its number; addresses sort as numbers.  Each        *)
(* handler and each timer callback is one atomic step.  The network is the *)
(* set of datagrams sent so far: a datagram may be delivered late, more    *)
(* than once (the leader re-sends the same Ok every d) or never.  Timer 1  *)
(* is pending or not: a pending timer may expire at any moment, since the  *)
(* model has no clock.                                                     *)
(***************************************************************************)
EXTENDS Integers, Sequences, FiniteSets, TLC

VARIABLES
    variant,    \* which elector class every process runs
    st,         \* st[i]: the fields of process i's elector
    msgs,       \* the datagrams sent so far
    alive,      \* alive[i]: process i has not crashed
    hist,       \* hist[i]: what process i's observer saw (kept for the properties)
    calc        \* one call of a function of ExpiringLinksImpl: name, arguments, result

vars == <<variant, st, msgs, alive, hist, calc>>

----------------------------------------------------------------------------
(* Bounds *)

\* Processes of the system
NumPeers == 3
\* Timer 1 expires only below this round
MaxRound == 2
\* The same where the state space is wider: the electors for lossy links, and
\* processes that start with different tables
MaxRoundWide == 1
\* okcount is counted up to this value (see IncOk)
MaxOkCount == 3
\* Length of the observer's log
MaxNotes == 4
\* Processes that may crash
MaxCrash == 1
\* Timer objects that restartTimer creates in one run
MaxTimers == 4
\* floor(1 / ackratio): every AckEvery-th Ok is acknowledged
AckEvery == 2

Proc == 1..NumPeers

\* leader = None in the source
None == -1

Variants == {"basic", "stable", "On", "O1"}

\* Variants built on LeaderElectorBase (sorted table, addPeer, peersSnapshot)
BaseVariants == {"basic", "O1"}

\* Variants whose startRound sets the leader view to None
StableVariants == {"stable", "On", "O1"}

\* Variants with expiring links (ExpiringLinksImpl)
LossyVariants == {"On", "O1"}

----------------------------------------------------------------------------
(* Sequences as Python lists *)

RECURSIVE sorted(_)
sorted(S) ==
    IF S = {} THEN <<>>
    ELSE LET m == CHOOSE x \in S : \A y \in S : x <= y
         IN <<m>> \o sorted(S \ {m})

Range(q) == {q[j] : j \in 1..Len(q)}

IsSorted(q) == \A j \in 1..(Len(q) - 1) : q[j] < q[j + 1]

\* list.index(a), 0-based; Len(q) when a is not in the list (the ValueError
\* branch of the p property)
IndexOf(q, a) ==
    IF a \in Range(q)
    THEN (CHOOSE j \in 1..Len(q) : q[j] = a /\ \A h \in 1..(j - 1) : q[h] # a) - 1
    ELSE Len(q)

\* list.remove(a) of a list that holds a
RemoveFirst(q, a) ==
    LET j == IndexOf(q, a) + 1
    IN [h \in 1..(Len(q) - 1) |-> IF h < j THEN q[h] ELSE q[h + 1]]

----------------------------------------------------------------------------
(* Messages *)

\* One datagram.  plist/pcount are the two forms of OkMsg.peers (a list, or
\* the cardinality; pcount = None when a list is sent, plist = <<>> when the
\* cardinality is); addr is the address of a Hello; has tells whether the O
\* and D statistics an Ok carries hold samples (n > 0).  Timestamps are not
\* kept: what discard() makes of them is an input of the handler.
Msg(t, src, dst, k, plist, pcount, addr, has) ==
    [type |-> t, src |-> src, dst |-> dst, round |-> k, plist |-> plist,
     pcount |-> pcount, addr |-> addr, has |-> has]

StartMsg(src, dst, k) == Msg("Start", src, dst, k, <<>>, None, 0, FALSE)
StopMsg(src, dst, k) == Msg("Stop", src, dst, k, <<>>, None, 0, FALSE)
AlertMsg(src, dst, k) == Msg("Alert", src, dst, k, <<>>, None, 0, FALSE)
AckMsg(src, dst, k) == Msg("Ack", src, dst, k, <<>>, None, 0, FALSE)
HelloMsg(src, dst, a) == Msg("Hello", src, dst, 0, <<>>, None, a, FALSE)
OkMsg(src, dst, k, plist, pcount, has) == Msg("Ok", src, dst, k, plist, pcount, 0, has)

\* tup: whether msg.address arrives as the tuple the table holds (the
\* transport hands a sequence, which equals no tuple)
ByeMsg(src, dst, a, tup) == Msg("Bye", src, dst, 0, <<>>, None, a, tup)

----------------------------------------------------------------------------
(* Peer state *)

\* n property
n(s) == Len(s.peers)

\* p property: the index of the own address, n when it is missing
p(s, self) == IndexOf(s.peers, self)

\* The table after the p property was read: StableLeaderElector.p and
\* OnStableLeaderElector.p append the own address when it is missing.
PeersAfterP(s, self) ==
    IF self \in Range(s.peers) THEN s.peers ELSE Append(s.peers, self)

\* isLeader property
isLeader(s, self) == s.leader = p(s, self)

\* Python truth value of self.leader (None and 0 are false)
LeaderTruthy(s) == s.leader # None /\ s.leader # 0

\* The table built by the constructor from the peers argument
InitPeers(v, self, known) ==
    IF v \in BaseVariants THEN sorted(known \cup {self})
    ELSE IF known = {} THEN <<self>> ELSE sorted(known)

\* The fields after the constructor.  info is the set of peers whose
\* statistics hold samples; alert is __lastalert, its time kept as "at most
\* 6d ago" (fresh) or not; LastAlertInfo(0, 0) is not fresh.  closed says
\* that close() has returned; fly0 and fly1, that a thread of timer 0 or of
\* timer 1 had passed the test of its cancel event when close() cancelled it,
\* so that its callback is still to run.  t1r is the round a running task 1
\* has read for its startRound(self.r + 1) and not yet started; mid says that
\* a running startRound has assigned the round and not yet the leader view;
\* boom, that the notify of the observer raises.
NewPeer(v, self, known) ==
    [peers |-> InitPeers(v, self, known), dirty |-> FALSE, r |-> 0,
     leader |-> None, okcount |-> 0, closing |-> FALSE, timer |-> FALSE,
     started |-> FALSE, oksleft |-> 1, info |-> {},
     alert |-> [round |-> 0, fresh |-> FALSE],
     closed |-> FALSE, fly0 |-> FALSE, fly1 |-> FALSE,
     t1r |-> None, mid |-> FALSE, boom |-> FALSE]

\* What a handler or task hands back: the peer's new state, the datagrams it
\* sent, the leader views it passed to observer.notify, whether it got as far
\* as the round rule (acc), and whether it raised (err).
Result(s, out, nt, acc, err) ==
    [s |-> s, out |-> out, nt |-> nt, acc |-> acc, err |-> err]

----------------------------------------------------------------------------
(* Decisions of the round rule, shared by the handlers *)

\* The round rule taken for "any other round"
OtherRound(k, r) == k # r

\* "if k > self.r": the message calls for a newer round
NewerRound(k, r) == k > r

\* "if k == self.r": the message is of the current round
SameRound(k, r) == k = r

\* The Stop rule taken for every Stop
AnyStop(k, r) == TRUE

\* The Stop rule taken for the Stop of a newer round only
StopNewer(k, r) == k > r

\* "if k >= self.r" of handleStopMessage
StopApplies(k, r) == k >= r

\* self.__okcount += 1.  The source counts without bound; every value from
\* MaxOkCount on is the same to it (it only tests == 2 and >= 2), so the
\* count stays at MaxOkCount once it is there.
IncOk(c) == IF c < MaxOkCount THEN c + 1 ELSE c

----------------------------------------------------------------------------
(* LeaderElectorBase *)

\* restartTimer that starts no Timer
restartTimer_NoTimer(s) == s

\* restartTimer: returns at once when closing, else a new Timer is pending
restartTimer(s) == IF s.closing THEN s ELSE [s EXCEPT !.timer = TRUE]

\* addPeer: append when unknown, and mark the table dirty
addPeer(s, a) ==
    IF a \in Range(s.peers) THEN s
    ELSE [s EXCEPT !.peers = Append(@, a), !.dirty = TRUE]

\* removePeer: remove when known, and mark the table dirty
removePeer(s, a, tup) ==
    IF tup /\ a \in Range(s.peers)
    THEN [s EXCEPT !.peers = RemoveFirst(@, a), !.dirty = TRUE]
    ELSE s

\* peers setter: the table becomes the list given, and is dirty
setPeers(s, q) == [s EXCEPT !.peers = q, !.dirty = TRUE]

\* peersSnapshot: clears the dirty flag (the copy is s.peers)
peersSnapshot(s) == [s EXCEPT !.dirty = FALSE]

----------------------------------------------------------------------------
(* ExpiringLinksImpl, as far as the electors' control flow needs it *)

\* processAckTimestamp: the statistics of src get one more sample
processAckTimestamp(s, src) == [s EXCEPT !.info = @ \cup {src}]

\* processOkTimestamp: the statistics of src become those the Ok carries
processOkTimestamp(s, src, has) ==
    [s EXCEPT !.info = IF has THEN @ \cup {src} ELSE @ \ {src}]

\* A discard that lets every datagram by
discard_Never(s, src, late) == FALSE

\* discard: never with n == 0 samples for src; with samples the timestamps
\* and the clock decide (late)
discard(s, src, late) == src \in s.info /\ late

\* A sendAckIfNeeded that counts and never sends
sendAckIfNeeded_Mute(s, self, src) ==
    [s |-> [s EXCEPT !.oksleft = IF @ - 1 = 0 THEN AckEvery ELSE @ - 1], out |-> {}]

\* sendAckIfNeeded
sendAckIfNeeded(s, self, src) ==
    IF s.oksleft - 1 = 0
    THEN [s |-> [s EXCEPT !.oksleft = AckEvery], out |-> {AckMsg(self, src, s.r)}]
    ELSE [s |-> [s EXCEPT !.oksleft = @ - 1], out |-> {}]

----------------------------------------------------------------------------
(* ExpiringLinksImpl, the arithmetic.  Times are whole units.  A StatInfo  *)
(* is (avg, stddev, n); the division avg / 3 of discard is carried by      *)
(* comparing three times each side.                                        *)

\* thrsh = 3
thrsh == 3
\* "if n < 10": below this many samples stddev is replaced
FewSamples == 10

Abs(x) == IF x < 0 THEN -x ELSE x

\* discard(msg, src): age is self.time() - msg.timestamp, (avg, stddev, cnt)
\* the offset statistics kept for src (cnt = 0: none, the KeyError branch),
\* dd is self.d.  With cnt < 10 the source sets stddev = avg / 3, so
\* 3 * stddev is avg.
discardStat(age, avg, stddev, cnt, dd) ==
    IF cnt = 0 THEN FALSE
    ELSE LET stddev3 == IF cnt < FewSamples THEN avg ELSE 3 * stddev
             th == IF avg < 0 THEN -thrsh ELSE thrsh
         IN 3 * age + 3 * avg + th * stddev3 > 3 * dd

\* The rule discard is documented to follow: k = 3, or -3 when avg < 0;
\* sigma = stddev, or |avg| / 3 with fewer than 10 samples ("twice the
\* average is allowed instead"); discard iff age + avg + k * sigma > d
discardRule(age, avg, stddev, cnt, dd) ==
    IF cnt = 0 THEN FALSE
    ELSE LET sigma3 == IF cnt < FewSamples THEN Abs(avg) ELSE 3 * stddev
             k == IF avg < 0 THEN -3 ELSE 3
         IN 3 * age + 3 * avg + k * sigma3 > 3 * dd

\* The sample count of a StatInfo after one more sample: StatInfo(.., n + 1),
\* and StatInfo(.., 0, 0) put in place on KeyError counts as 0 samples before
StatSame(cnt) == cnt

StatNext(cnt) == cnt + 1

\* processAckTimestamp(msg, src): t1 = msg.msg_ts, t2 = msg.recv_ts,
\* t3 = msg.timestamp, t4 = self.time(); twoD is 2 * D, twoO is 2 * O;
\* on and dn are the sample counts of the offset and of the delay kept
\* for src
ackSample(on, dn, t1, t2, t3, t4) ==
    [twoD |-> (t4 - t1) - (t3 - t2),
     twoO |-> (t2 - t1) + (t3 - t4),
     on |-> StatNext(on),
     dn |-> StatNext(dn)]

\* handleAckMessage down to the statistics: an Ack of a source in the table
\* goes to processAckTimestamp whatever its age is (discard is not called),
\* an Ack of any other source is dropped
ackHandled(known, on, dn, t1, t2, t3, t4) ==
    IF known
    THEN [done |-> TRUE] @@ ackSample(on, dn, t1, t2, t3, t4)
    ELSE [done |-> FALSE, twoD |-> 0, twoO |-> 0, on |-> on, dn |-> dn]

\* No call of these functions is on record
NoCalc == [fn |-> "none", arg |-> <<>>, out |-> <<>>]

----------------------------------------------------------------------------
(* LeaderElector: the basic elector *)

\* startRound of the basic elector without "self.r = s"
LE_startRound_NoRound(s0, self, k) ==
    LET l == k % n(s0)
        s1 == peersSnapshot(s0)
        out == IF p(s1, self) # l THEN {StartMsg(self, s1.peers[l + 1], k)} ELSE {}
    IN Result(restartTimer([s1 EXCEPT !.leader = l]), out, <<l>>, TRUE, FALSE)

\* self.shutdown(): serve_forever returns, and _serve_forever goes on with
\* close(), which sets the closing flag and cancels both timers
shutdown(s) ==
    [s EXCEPT !.started = FALSE, !.closing = TRUE, !.closed = TRUE, !.timer = FALSE]

\* "s % self.n" raises ZeroDivisionError when the table is empty
LE_startRound(s0, self, k) ==
    LET l == k % n(s0)
        s1 == peersSnapshot(s0)
        out == IF p(s1, self) # l THEN {StartMsg(self, s1.peers[l + 1], k)} ELSE {}
        s2 == [s1 EXCEPT !.r = k, !.leader = l]
    IN IF n(s0) = 0 THEN Result(s0, {}, <<>>, FALSE, TRUE)
       ELSE Result(restartTimer(s2), out, <<l>>, TRUE, FALSE)

\* The Bye of a closing process that is not the leader carries the bound
\* method self.address, which is no address (None here).
LE_task0(s, self) ==
    IF n(s) = 0 THEN Result(s, {}, <<>>, FALSE, TRUE)
    ELSE IF p(s, self) = s.r % n(s)
    THEN IF s.closing THEN Result(shutdown(s), {}, <<>>, FALSE, FALSE)
         ELSE LET s1 == peersSnapshot(s)
                  out == {OkMsg(self, d, s.r,
                                IF s.dirty THEN s.peers ELSE <<>>,
                                IF s.dirty THEN None ELSE n(s), FALSE) : d \in Range(s.peers)}
              IN Result(s1, out, <<>>, TRUE, FALSE)
    ELSE IF s.closing /\ LeaderTruthy(s)
    THEN IF s.leader < n(s)
         THEN Result(s, {ByeMsg(self, s.peers[s.leader + 1], None, FALSE)}, <<>>, FALSE, FALSE)
         ELSE Result(s, {}, <<>>, FALSE, TRUE)
    ELSE Result(s, {}, <<>>, FALSE, FALSE)

\* A task 1 that leaves everything as it is
LE_task1_Idle(s, self) == Result(s, {}, <<>>, FALSE, FALSE)

LE_task1(s, self) == LE_startRound(s, self, s.r + 1)

LE_handleStartMessage(s, self, m) ==
    LET s1 == addPeer(s, m.src)
    IN IF NewerRound(m.round, s1.r) THEN LE_startRound(s1, self, m.round)
       ELSE Result(s1, {}, <<>>, TRUE, FALSE)

\* raises: what self.send(self.leader, HelloMsg(self.address)) does, whose
\* arguments are swapped and whose address is the bound method: it raises
\* (the handler ends there), or the transport swallows it and nothing usable
\* is sent.
LE_handleOkMessage(s, self, m, raises) ==
    LET isList == m.pcount = None
        s1 == IF isList THEN setPeers(s, m.plist) ELSE s
    IN IF isList /\ s1.closing /\ self \notin Range(m.plist)
       THEN Result(shutdown(s1), {}, <<>>, FALSE, FALSE)
       ELSE IF ~isList /\ m.pcount # n(s1) /\ raises
       THEN Result(s1, {}, <<>>, FALSE, TRUE)
       ELSE IF SameRound(m.round, s1.r)
       THEN Result(restartTimer(s1), {}, <<>>, TRUE, FALSE)
       ELSE IF NewerRound(m.round, s1.r) THEN LE_startRound(s1, self, m.round)
       ELSE Result(s1, {}, <<>>, TRUE, FALSE)

\* LeaderElector.handleHelloMessage and O1StableLeaderElector.handleHelloMessage
\* (the same code).  tuple(msg.address) is the address; a forward to
\* peers[leader] needs the index to be in the table (IndexError otherwise).
LE_handleHelloMessage(s, self, m) ==
    IF isLeader(s, self)
    THEN Result([addPeer(s, m.addr) EXCEPT !.dirty = TRUE], {}, <<>>, TRUE, FALSE)
    ELSE IF LeaderTruthy(s)
    THEN IF s.leader < n(s)
         THEN Result(s, {HelloMsg(self, s.peers[s.leader + 1], m.addr)}, <<>>, TRUE, FALSE)
         ELSE Result(s, {}, <<>>, FALSE, TRUE)
    ELSE Result(s, {}, <<>>, TRUE, FALSE)

\* LeaderElector.handleByeMessage and O1StableLeaderElector.handleByeMessage
\* (the same code).  msg.address is not made a tuple.
LE_handleByeMessage(s, self, m) ==
    IF isLeader(s, self)
    THEN Result([removePeer(s, m.addr, m.has) EXCEPT !.dirty = TRUE], {}, <<>>, TRUE, FALSE)
    ELSE IF LeaderTruthy(s)
    THEN IF s.leader < n(s)
         THEN Result(s, {ByeMsg(self, s.peers[s.leader + 1], m.addr, m.has)}, <<>>, TRUE, FALSE)
         ELSE Result(s, {}, <<>>, FALSE, TRUE)
    ELSE Result(s, {}, <<>>, TRUE, FALSE)

----------------------------------------------------------------------------
(* StableLeaderElector *)

\* A restartTimer that starts no Timer
SLE_restartTimer_NoTimer(s) == s

\* restartTimer of StableLeaderElector and OnStableLeaderElector has no
\* closing test
SLE_restartTimer(s) == [s EXCEPT !.timer = TRUE]

\* "self.__observer and self.__observer.notify(self)" followed by
\* "self.restartTimer()" in StableLeaderElector and OnStableLeaderElector:
\* nothing catches what notify raises, so restartTimer is not reached
notifyThenRestart(s) == IF s.boom THEN s ELSE SLE_restartTimer(s)

\* startRound of StableLeaderElector without the call of observer.notify
SLE_startRound_Silent(s0, self, k) ==
    LET l == k % n(s0)
        s1 == [s0 EXCEPT !.peers = PeersAfterP(s0, self)]
        out == IF p(s1, self) # l THEN {StartMsg(self, s1.peers[l + 1], k)} ELSE {}
        s2 == [s1 EXCEPT !.r = k, !.leader = None]
    IN Result(SLE_restartTimer(s2), out, <<>>, TRUE, FALSE)

SLE_startRound(s0, self, k) ==
    LET l == k % n(s0)
        s1 == [s0 EXCEPT !.peers = PeersAfterP(s0, self)]
        out == IF p(s1, self) # l THEN {StartMsg(self, s1.peers[l + 1], k)} ELSE {}
        s2 == [s1 EXCEPT !.r = k, !.leader = None]
    IN Result(notifyThenRestart(s2), out, <<None>>, TRUE, s2.boom)

\* A task0 that sends Ok whoever the designated leader is
SLE_task0_Always(s0, self) ==
    LET s == [s0 EXCEPT !.peers = PeersAfterP(s0, self)]
    IN Result(s, {OkMsg(self, d, s.r, <<>>, n(s), FALSE) : d \in Range(s.peers)},
              <<>>, TRUE, FALSE)

SLE_task0(s0, self) ==
    LET s == [s0 EXCEPT !.peers = PeersAfterP(s0, self)]
    IN IF p(s, self) = s.r % n(s)
       THEN LET out == {OkMsg(self, d, s.r,
                              IF s.dirty THEN s.peers ELSE <<>>,
                              IF s.dirty THEN None ELSE n(s), FALSE) : d \in Range(s.peers)}
            IN Result([s EXCEPT !.dirty = FALSE], out, <<>>, TRUE, FALSE)
       ELSE Result(s, {}, <<>>, FALSE, FALSE)

SLE_task1(s0, self) ==
    LET s == [s0 EXCEPT !.peers = PeersAfterP(s0, self)]
        stop == StopMsg(self, s.peers[(s.r % n(s)) + 1], s.r)
        res == SLE_startRound(s, self, s.r + 1)
    IN [res EXCEPT !.out = @ \cup {stop}]

\* "self.__peers.add(src)": a list has no add, so a Start from an unknown
\* source raises AttributeError
SLE_handleStartMessage(s0, self, m) ==
    LET s == [s0 EXCEPT !.peers = PeersAfterP(s0, self)]
    IN IF m.src \notin Range(s.peers) THEN Result(s, {}, <<>>, FALSE, TRUE)
       ELSE IF NewerRound(m.round, s.r) THEN SLE_startRound(s, self, m.round)
       ELSE Result(s, {}, <<>>, TRUE, FALSE)

\* "self.leader is None and self.__okcount == 2"
SLE_confirms(s) == s.leader = None /\ s.okcount = 2

SLE_handleOkMessage(s0, self, m) ==
    LET s == [s0 EXCEPT !.peers = PeersAfterP(s0, self)]
    IN IF m.src \notin Range(s.peers) THEN Result(s, {}, <<>>, FALSE, FALSE)
       ELSE IF SameRound(m.round, s.r)
       THEN LET s1 == [s EXCEPT !.okcount = IncOk(@)]
            IN IF SLE_confirms(s1)
               THEN Result(notifyThenRestart([s1 EXCEPT !.okcount = 0,
                                                        !.leader = m.round % n(s1)]),
                           {}, <<m.round % n(s1)>>, TRUE, s1.boom)
               ELSE Result(SLE_restartTimer(s1), {}, <<>>, TRUE, FALSE)
       ELSE IF NewerRound(m.round, s.r)
       THEN SLE_startRound([s EXCEPT !.okcount = 0], self, m.round)
       ELSE Result(s, {}, <<>>, TRUE, FALSE)

SLE_handleStopMessage(s0, self, m) ==
    LET s == [s0 EXCEPT !.peers = PeersAfterP(s0, self)]
    IN IF m.src \notin Range(s.peers) THEN Result(s, {}, <<>>, FALSE, FALSE)
       ELSE IF StopApplies(m.round, s.r) THEN SLE_startRound(s, self, m.round + 1)
       ELSE Result(s, {}, <<>>, TRUE, FALSE)

\* StableLeaderElector.handleHelloMessage: the code of LeaderElector's, after
\* the p property
SLE_handleHelloMessage(s0, self, m) ==
    LE_handleHelloMessage([s0 EXCEPT !.peers = PeersAfterP(s0, self)], self, m)

\* StableLeaderElector.handleByeMessage and OnStableLeaderElector's (the
\* same code): list.remove raises ValueError when the address is not in the
\* table, and the dirty flag is then not set.
SLE_handleByeMessage(s0, self, m) ==
    LET s == [s0 EXCEPT !.peers = PeersAfterP(s0, self)]
    IN IF isLeader(s, self)
       THEN IF m.has /\ m.addr \in Range(s.peers)
            THEN Result([s EXCEPT !.peers = RemoveFirst(@, m.addr), !.dirty = TRUE],
                        {}, <<>>, TRUE, FALSE)
            ELSE Result(s, {}, <<>>, FALSE, TRUE)
       ELSE IF LeaderTruthy(s)
       THEN IF s.leader < n(s)
            THEN Result(s, {ByeMsg(self, s.peers[s.leader + 1], m.addr, m.has)}, <<>>, TRUE, FALSE)
            ELSE Result(s, {}, <<>>, FALSE, TRUE)
       ELSE Result(s, {}, <<>>, TRUE, FALSE)

----------------------------------------------------------------------------
(* OnStableLeaderElector: O(n) messages, lossy links *)

\* The Start goes to every entry of the table, the own one included.
\* A startRound that keeps the leader view
On_startRound_Keeps(s0, self, k) ==
    LET s1 == [s0 EXCEPT !.peers = PeersAfterP(s0, self), !.r = k]
    IN Result(notifyThenRestart(s1), {}, <<s1.leader>>, TRUE, s1.boom)

On_startRound(s0, self, k) ==
    LET l == k % n(s0)
        s1 == [s0 EXCEPT !.peers = PeersAfterP(s0, self)]
        out == IF p(s1, self) # l
               THEN {StartMsg(self, d, k) : d \in Range(s1.peers)} ELSE {}
        s2 == [s1 EXCEPT !.r = k, !.leader = None]
    IN Result(notifyThenRestart(s2), out, <<None>>, TRUE, s2.boom)

\* A task0 that sends nothing
On_task0_Quiet(s0, self) == Result(s0, {}, <<>>, FALSE, FALSE)

On_task0(s0, self) ==
    LET s == [s0 EXCEPT !.peers = PeersAfterP(s0, self)]
    IN IF p(s, self) = s.r % n(s)
       THEN Result(s, {OkMsg(self, d, s.r, <<>>, None, d \in s.info) : d \in Range(s.peers)},
                   <<>>, TRUE, FALSE)
       ELSE Result(s, {}, <<>>, FALSE, FALSE)

On_task1(s0, self) ==
    On_startRound([s0 EXCEPT !.peers = PeersAfterP(s0, self)], self, s0.r + 1)

\* "self.__peers.add(src)" raises for an unknown source, and
\* "type(self).StartMessage" raises for an older round: the class has StartMsg.
On_handleStartMessage(s0, self, m, late) ==
    LET s == [s0 EXCEPT !.peers = PeersAfterP(s0, self)]
    IN IF discard(s, m.src, late) THEN Result(s, {}, <<>>, FALSE, FALSE)
       ELSE IF m.src \notin Range(s.peers) THEN Result(s, {}, <<>>, FALSE, TRUE)
       ELSE IF NewerRound(m.round, s.r) THEN On_startRound(s, self, m.round)
       ELSE IF m.round < s.r THEN Result(s, {}, <<>>, TRUE, TRUE)
       ELSE Result(s, {}, <<>>, TRUE, FALSE)

On_handleOkMessage(s0, self, m, late) ==
    LET s == [s0 EXCEPT !.peers = PeersAfterP(s0, self)]
        s1 == processOkTimestamp(s, m.src, m.has)
        s2 == [s1 EXCEPT !.okcount = IncOk(@)]
        res == IF SameRound(m.round, s1.r)
               THEN IF SLE_confirms(s2)
                    THEN Result(notifyThenRestart([s2 EXCEPT !.okcount = 0,
                                                             !.leader = m.round % n(s2)]),
                                {}, <<m.round % n(s2)>>, TRUE, s2.boom)
                    ELSE Result(SLE_restartTimer(s2), {}, <<>>, TRUE, FALSE)
               ELSE IF NewerRound(m.round, s1.r)
               THEN On_startRound([s1 EXCEPT !.okcount = 0], self, m.round)
               ELSE Result(s1, {StartMsg(self, m.src, s1.r)}, <<>>, TRUE, FALSE)
        ack == sendAckIfNeeded(res.s, self, m.src)
    IN IF m.src \notin Range(s.peers) THEN Result(s, {}, <<>>, FALSE, FALSE)
       ELSE IF discard(s1, m.src, late) THEN Result(s1, {}, <<>>, FALSE, FALSE)
       ELSE IF res.err THEN res
       ELSE [res EXCEPT !.s = ack.s, !.out = @ \cup ack.out]

\* A handleAckMessage that takes the Ack of any source
On_handleAckMessage_Any(s, self, m) ==
    Result(processAckTimestamp(s, m.src), {}, <<>>, TRUE, FALSE)

\* handleAckMessage of OnStableLeaderElector and of O1StableLeaderElector
On_handleAckMessage(s, self, m) ==
    IF m.src \notin Range(s.peers) THEN Result(s, {}, <<>>, FALSE, FALSE)
    ELSE Result(processAckTimestamp(s, m.src), {}, <<>>, TRUE, FALSE)

----------------------------------------------------------------------------
(* O1StableLeaderElector: O(1) election time, lossy links *)

\* A broadcast that reaches no entry
broadcast_ToNone(s, self, t, k) == {}

\* broadcast(msg): to every entry of a snapshot of the table
broadcast(s, self, t, k) ==
    {Msg(t, self, d, k, <<>>, None, 0, FALSE) : d \in Range(s.peers)}

\* The leader setter notifies the observer of every assignment.
O1_startRound(s0, self, k) ==
    LET l == k % n(s0)
        s1 == peersSnapshot(s0)
        out == broadcast(s1, self, "Alert", k)
                 \cup (IF p(s1, self) # l THEN broadcast(s1, self, "Start", k) ELSE {})
        s2 == [s1 EXCEPT !.r = k, !.leader = None]
    IN Result(restartTimer(s2), out, <<None>>, TRUE, FALSE)

O1_task0(s, self) ==
    IF p(s, self) = s.r % n(s)
    THEN Result(peersSnapshot(s),
                {OkMsg(self, d, s.r, s.peers, None, d \in s.info) : d \in Range(s.peers)},
                <<>>, TRUE, FALSE)
    ELSE Result(s, {}, <<>>, FALSE, FALSE)

O1_task1(s, self) == O1_startRound(s, self, s.r + 1)

O1_handleStartMessage(s, self, m, late) ==
    IF m.src \notin Range(s.peers) THEN Result(s, {}, <<>>, FALSE, FALSE)
    ELSE IF discard(s, m.src, late) THEN Result(s, {}, <<>>, FALSE, FALSE)
    ELSE IF NewerRound(m.round, s.r) THEN O1_startRound(s, self, m.round)
    ELSE IF m.round < s.r THEN Result(s, {StartMsg(self, m.src, s.r)}, <<>>, TRUE, FALSE)
    ELSE Result(s, {}, <<>>, TRUE, FALSE)

\* The confirmation test without the alert on record
O1_confirms_NoAlert(s, k) == s.leader = None /\ s.okcount >= 2

\* "self.leader is None and self.__okcount >= 2 and ( time() -
\* self.__lastalert.time > 6*self.d or self.__lastalert.round <= k )"
O1_confirms(s, k) ==
    s.leader = None /\ s.okcount >= 2 /\ (~s.alert.fresh \/ s.alert.round <= k)

\* An Ok of an older round ends in "type(self).StartMessage", which raises
\* before sendAckIfNeeded is reached.
O1_handleOkMessage(s, self, m, late) ==
    LET s1 == processOkTimestamp(s, m.src, m.has)
        s2 == setPeers(s1, m.plist)
        s3 == [s2 EXCEPT !.okcount = IncOk(@)]
        res == IF SameRound(m.round, s2.r)
               THEN IF O1_confirms(s3, m.round)
                    THEN Result(restartTimer([s3 EXCEPT !.okcount = 0,
                                                       !.leader = m.round % n(s3)]),
                                {}, <<m.round % n(s3)>>, TRUE, FALSE)
                    ELSE Result(restartTimer(s3), {}, <<>>, TRUE, FALSE)
               ELSE IF NewerRound(m.round, s2.r)
               THEN O1_startRound([s2 EXCEPT !.okcount = 0], self, m.round)
               ELSE Result(s2, {}, <<>>, TRUE, TRUE)
        ack == sendAckIfNeeded(res.s, self, m.src)
    IN IF discard(s1, m.src, late) THEN Result(s1, {}, <<>>, FALSE, FALSE)
       ELSE IF res.err THEN res
       ELSE [res EXCEPT !.s = ack.s, !.out = @ \cup ack.out]

\* A handleAlertMsg that records the Alert it handles, whatever is on record
O1_handleAlertMsg_Last(s, self, m, late) ==
    LET s1 == IF NewerRound(m.round, s.r) THEN [s EXCEPT !.leader = None] ELSE s
    IN IF discard(s, m.src, late) \/ m.src \notin Range(s.peers)
       THEN Result(s, {}, <<>>, FALSE, FALSE)
       ELSE Result([s1 EXCEPT !.alert = [round |-> m.round, fresh |-> TRUE]], {},
                   IF NewerRound(m.round, s.r) THEN <<None>> ELSE <<>>, TRUE, FALSE)

\* max(LastAlertInfo(k, time()), self.__lastalert): tuples compare by round
\* first, and time() is not before the time kept
O1_handleAlertMsg(s, self, m, late) ==
    LET s1 == IF NewerRound(m.round, s.r) THEN [s EXCEPT !.leader = None] ELSE s
        s2 == IF m.round >= s.alert.round
              THEN [s1 EXCEPT !.alert = [round |-> m.round, fresh |-> TRUE]] ELSE s1
    IN IF discard(s, m.src, late) THEN Result(s, {}, <<>>, FALSE, FALSE)
       ELSE IF m.src \notin Range(s.peers) THEN Result(s, {}, <<>>, FALSE, FALSE)
       ELSE Result(s2, {}, IF NewerRound(m.round, s.r) THEN <<None>> ELSE <<>>, TRUE, FALSE)

----------------------------------------------------------------------------
(* The elector a process runs *)

startRound(v, s, self, k) ==
    CASE v = "basic" -> LE_startRound(s, self, k)
      [] v = "stable" -> SLE_startRound(s, self, k)
      [] v = "On" -> On_startRound(s, self, k)
      [] v = "O1" -> O1_startRound(s, self, k)

task0(v, s, self) ==
    CASE v = "basic" -> LE_task0(s, self)
      [] v = "stable" -> SLE_task0(s, self)
      [] v = "On" -> On_task0(s, self)
      [] v = "O1" -> O1_task0(s, self)

task1(v, s, self) ==
    CASE v = "basic" -> LE_task1(s, self)
      [] v = "stable" -> SLE_task1(s, self)
      [] v = "On" -> On_task1(s, self)
      [] v = "O1" -> O1_task1(s, self)

handleStartMessage(v, s, self, m, late) ==
    CASE v = "basic" -> LE_handleStartMessage(s, self, m)
      [] v = "stable" -> SLE_handleStartMessage(s, self, m)
      [] v = "On" -> On_handleStartMessage(s, self, m, late)
      [] v = "O1" -> O1_handleStartMessage(s, self, m, late)

handleOkMessage(v, s, self, m, late, raises) ==
    CASE v = "basic" -> LE_handleOkMessage(s, self, m, raises)
      [] v = "stable" -> SLE_handleOkMessage(s, self, m)
      [] v = "On" -> On_handleOkMessage(s, self, m, late)
      [] v = "O1" -> O1_handleOkMessage(s, self, m, late)

\* The handler the dispatcher of the variant runs for a datagram
handle(v, s, self, m, late, raises) ==
    CASE m.type = "Start" -> handleStartMessage(v, s, self, m, late)
      [] m.type = "Ok" -> handleOkMessage(v, s, self, m, late, raises)
      [] m.type = "Stop" -> SLE_handleStopMessage(s, self, m)
      [] m.type = "Alert" -> O1_handleAlertMsg(s, self, m, late)
      [] m.type = "Ack" -> On_handleAckMessage(s, self, m)
      [] m.type = "Hello" -> IF v = "stable" THEN SLE_handleHelloMessage(s, self, m)
                             ELSE LE_handleHelloMessage(s, self, m)
      [] m.type = "Bye" -> IF v \in BaseVariants THEN LE_handleByeMessage(s, self, m)
                           ELSE SLE_handleByeMessage(s, self, m)

\* The message types a variant has a handler for that is modelled here
Handles(v, t) ==
    \/ t \in {"Start", "Ok"}
    \/ t = "Stop" /\ v = "stable"
    \/ t = "Alert" /\ v = "O1"
    \/ t = "Ack" /\ v \in LossyVariants
    \/ t = "Hello" /\ v \in BaseVariants \cup {"stable"}
    \/ t = "Bye"

----------------------------------------------------------------------------
(* Start-up *)

\* The processes of the two-process set-ups
PairProcs == {1, 2}

\* The set-ups: "pair", processes 1 and 2 are given the addresses of both;
\* "join", process 2 is started with no address and process 1 is given the
\* address of 2; "alone", the same before process 1 starts to serve (it is
\* constructed only); "star", processes 1 and 3 are each given the address of
\* 2 only; "full", every process is given the addresses of all.
Present(c) ==
    CASE c \in {"full", "star"} -> Proc
      [] c = "alone" -> {2}
      [] OTHER -> PairProcs

\* The processes whose elector is constructed
Constructed(c) == IF c \in {"full", "star"} THEN Proc ELSE PairProcs

\* The peers argument of the constructor of process i
Known(c, i) ==
    CASE c \in {"pair", "leave"} -> PairProcs
      [] c \in {"join", "alone"} -> IF i = 1 THEN {2} ELSE {}
      [] c = "star" -> IF i = 2 THEN {} ELSE {2}
      [] c = "full" -> Proc

\* The Hello the constructors of LeaderElector and O1StableLeaderElector send
\* to every address of the set they were given, the own one included
InitHellos(v, c, i) ==
    IF v \in BaseVariants THEN {HelloMsg(i, d, i) : d \in Known(c, i) \cup {i}} ELSE {}

\* StableLeaderElector handles Hello and sends none: in the "star" set-up the
\* processes that join are announced by a Hello to the address they were given
Announced(v, c, i) ==
    IF v = "stable" /\ c = "star" THEN {HelloMsg(i, d, i) : d \in Known(c, i)} ELSE {}

\* In the "leave" set-up (that of "pair" otherwise) a Bye of every address, in
\* the table or not, is on its way to each process
Byes(c) ==
    IF c = "leave" THEN {ByeMsg(a, d, a, tup) : a \in Proc, d \in PairProcs, tup \in BOOLEAN}
    ELSE {}

\* _serve_forever: startRound(0) on the constructed elector, before the first
\* datagram is handled
Started(v, c, i) == startRound(v, [NewPeer(v, i, Known(c, i)) EXCEPT !.started = TRUE], i, 0)

\* What the observer of a process saw: the first MaxNotes leader views it was
\* notified of, and the number of Ok of the current round the process went
\* through the round rule with since it entered the round (2 stands for 2 or
\* more), and whether a Hello changed the table of the process since its
\* task 0 last sent Ok
Log(q, nt) ==
    SubSeq(q \o nt, 1, IF Len(q \o nt) < MaxNotes THEN Len(q \o nt) ELSE MaxNotes)

IncSeen(c) == IF c < 2 THEN c + 1 ELSE c

InitFor(c, v) ==
    /\ st = [i \in Proc |-> IF i \in Present(c) THEN Started(v, c, i).s
                            ELSE NewPeer(v, i, IF i \in Constructed(c) THEN Known(c, i) ELSE {})]
    /\ msgs = UNION ({Byes(c)} \cup {Started(v, c, i).out : i \in Present(c)}
                       \cup {InitHellos(v, c, i) \cup Announced(v, c, i) : i \in Constructed(c)})
    /\ alive = [i \in Proc |-> TRUE]
    /\ hist = [i \in Proc |-> [notes |-> IF i \in Present(c) THEN Started(v, c, i).nt ELSE <<>>,
                               okseen |-> 0, changed |-> FALSE]]
    /\ calc = NoCalc

\* The set-ups of two processes an elector is run in
SetUps(v) == IF v = "stable" THEN {"pair", "join"} ELSE {"pair"}

\* Two processes, any of the four electors
Init ==
    /\ variant \in Variants
    /\ \E c \in SetUps(variant) : InitFor(c, variant)

\* The electors of the three-process scenarios
SceneVariants == {"basic", "stable"}

InitScene ==
    /\ variant \in SceneVariants
    /\ InitFor("full", variant)

----------------------------------------------------------------------------
(* Steps *)

Running(i) == alive[i] /\ st[i].started

\* One atomic run of a task or handler of process i with outcome res.  obs says
\* whether the observer's record is kept; okin, whether the run was an Ok of
\* the round the process was in that got through to the round rule; t is the
\* type of the datagram handled, "task0" or "task1".
Apply(i, res, obs, okin, t) ==
    /\ st' = [st EXCEPT ![i] = res.s]
    /\ msgs' = msgs \cup res.out
    /\ hist' = IF obs
               THEN [hist EXCEPT ![i] =
                        [notes |-> Log(@.notes, res.nt),
                         okseen |-> IF res.s.r # st[i].r THEN 0
                                    ELSE IF okin THEN IncSeen(@.okseen) ELSE @.okseen,
                         changed |-> IF t = "Hello" /\ res.s.peers # st[i].peers THEN TRUE
                                     ELSE IF t = "task0" /\ res.acc THEN FALSE
                                     ELSE @.changed]]
               ELSE hist
    /\ UNCHANGED <<variant, alive, calc>>

\* Timer 0 fires
Task0(i, obs) ==
    /\ Running(i)
    /\ ~st[i].closed
    /\ Apply(i, task0(variant, st[i], i), obs, FALSE, "task0")

\* The process the table of i designates as leader of i's round
Designated(i) == st[i].peers[(st[i].r % n(st[i])) + 1]

\* Timer 1 fires.  With timely links it fires only when the designated leader
\* has stopped sending Ok.
Task1(i, obs, timely, cap) ==
    /\ Running(i)
    /\ st[i].timer
    /\ st[i].r < cap
    /\ timely => ~alive[Designated(i)]
    /\ Apply(i, task1(variant, [st[i] EXCEPT !.timer = FALSE], i), obs, FALSE, "task1")

\* The outcomes of discard() are open in the variants that call it, that of
\* the send with swapped arguments in the Ok handler of the basic elector
Lates(v) == IF v \in LossyVariants THEN BOOLEAN ELSE {FALSE}

Raises(v, t) == IF v = "basic" /\ t = "Ok" THEN BOOLEAN ELSE {FALSE}

Deliverable(i, t) == {m \in msgs : m.dst = i /\ m.type = t}

\* A datagram of type t reaches process i: sent datagrams may be lost (never
\* received), delayed, reordered and duplicated.
Receive(i, t, obs) ==
    /\ Running(i)
    /\ Handles(variant, t)
    /\ \E m \in Deliverable(i, t) : \E late \in Lates(variant) : \E raises \in Raises(variant, t) :
         LET res == handle(variant, st[i], i, m, late, raises)
         IN Apply(i, res, obs, t = "Ok" /\ res.acc /\ m.round = st[i].r, t)

HandleStart(i, obs) == Receive(i, "Start", obs)
HandleOk(i, obs) == Receive(i, "Ok", obs)
HandleStop(i, obs) == Receive(i, "Stop", obs)
HandleAlert(i, obs) == Receive(i, "Alert", obs)
HandleAck(i, obs) == Receive(i, "Ack", obs)
HandleHello(i, obs) == Receive(i, "Hello", obs)
HandleBye(i, obs) == Receive(i, "Bye", obs)

\* More than 6d pass since the last Alert was recorded
AlertExpires(i) ==
    /\ Running(i)
    /\ st[i].alert.fresh
    /\ st' = [st EXCEPT ![i].alert.fresh = FALSE]
    /\ UNCHANGED <<variant, msgs, alive, hist, calc>>

\* Process i crashes: it takes no further step
Crash(i) ==
    /\ Running(i)
    /\ Cardinality({j \in Proc : ~alive[j]}) < MaxCrash
    /\ alive' = [alive EXCEPT ![i] = FALSE]
    /\ UNCHANGED <<variant, st, msgs, hist, calc>>

\* task1 on the thread of timer 1, up to the evaluation of "self.r + 1"
\* (StableLeaderElector.task1 has sent its Stop by then)
Task1Read(i) ==
    /\ Running(i)
    /\ st[i].timer /\ st[i].t1r = None
    /\ st[i].r < MaxRound
    /\ st' = [st EXCEPT ![i] = [@ EXCEPT !.timer = FALSE, !.t1r = st[i].r,
                                         !.peers = IF variant \in BaseVariants THEN @
                                                   ELSE PeersAfterP(st[i], i)]]
    /\ msgs' = msgs \cup (IF variant = "stable"
                          THEN {StopMsg(i, Designated(i), st[i].r)} ELSE {})
    /\ UNCHANGED <<variant, alive, hist, calc>>

\* The rest of task1: startRound with the value read
Task1Run(i) ==
    /\ Running(i)
    /\ st[i].t1r # None
    /\ Apply(i, startRound(variant, [st[i] EXCEPT !.t1r = None], i, st[i].t1r + 1),
             FALSE, FALSE, "task1")

\* A handler on the dispatcher thread, which stops after "self.__round = s"
\* when it starts a round: the leader view and timer 1 are then still those
\* of the round before.  The dispatcher handles one datagram at a time.
ReceiveSplit(i, t) ==
    /\ Running(i)
    /\ ~st[i].mid
    /\ Handles(variant, t)
    /\ \E m \in Deliverable(i, t) :
         LET res == handle(variant, st[i], i, m, FALSE, FALSE)
         IN IF res.s.r # st[i].r /\ ~res.err
            THEN /\ st' = [st EXCEPT ![i] = [res.s EXCEPT !.leader = st[i].leader,
                                                          !.timer = st[i].timer,
                                                          !.mid = TRUE]]
                 /\ msgs' = msgs \cup res.out
                 /\ UNCHANGED <<variant, alive, hist, calc>>
            ELSE Apply(i, res, FALSE, FALSE, t)

\* The rest of startRound of the stable elector: the leader view is cleared
\* and timer 1 restarted
FinishRound(i) ==
    /\ Running(i)
    /\ st[i].mid
    /\ st' = [st EXCEPT ![i] = SLE_restartTimer([@ EXCEPT !.leader = None, !.mid = FALSE])]
    /\ UNCHANGED <<variant, msgs, alive, hist, calc>>

\* The observer of process i starts to raise in notify
ObserverBreaks(i) ==
    /\ Running(i)
    /\ ~st[i].boom
    /\ st' = [st EXCEPT ![i].boom = TRUE]
    /\ UNCHANGED <<variant, msgs, alive, hist, calc>>

\* close() called on a serving elector by the thread that owns it.
\* LeaderElectorBase.close sets the closing flag and cancels both timers;
\* StableLeaderElector.close and OnStableLeaderElector.close only cancel them.
\* A cancel does not stop a timer thread that is past the test of its cancel
\* event (f0, f1).  raced: a restartTimer running on another thread had
\* passed its closing test (or has none), and starts its new Timer after
\* timer 1 was cancelled.
Close(i, raced) ==
    /\ Running(i)
    /\ ~st[i].closed
    /\ raced => st[i].timer
    /\ \E f0 \in BOOLEAN : \E f1 \in (IF st[i].timer THEN BOOLEAN ELSE {FALSE}) :
         st' = [st EXCEPT ![i] = [@ EXCEPT !.closing = (variant \in BaseVariants),
                                           !.closed = TRUE, !.timer = raced,
                                           !.fly0 = f0, !.fly1 = f1]]
    /\ UNCHANGED <<variant, msgs, alive, hist, calc>>

\* The callback of task 0 runs on the thread that close() did not stop
LateTask0(i) ==
    /\ Running(i)
    /\ st[i].closed /\ st[i].fly0
    /\ Apply(i, task0(variant, [st[i] EXCEPT !.fly0 = FALSE], i), FALSE, FALSE, "task0")

\* The callback of task 1 runs on the thread that close() did not stop
LateTask1(i) ==
    /\ Running(i)
    /\ st[i].closed /\ st[i].fly1
    /\ st[i].r < MaxRound
    /\ Apply(i, task1(variant, [st[i] EXCEPT !.fly1 = FALSE], i), FALSE, FALSE, "task1")

\* The round below which timer 1 of an elector expires
RoundCap(v) == IF v \in LossyVariants THEN MaxRoundWide ELSE MaxRound

\* Two processes, any of the four electors, no crash.  The links lose every
\* Ack (SpecLinks has them delivered).
Next ==
    \E i \in Proc :
        \/ Task0(i, FALSE)
        \/ Task1(i, FALSE, FALSE, RoundCap(variant))
        \/ HandleStart(i, FALSE)
        \/ HandleOk(i, FALSE)
        \/ HandleStop(i, FALSE)
        \/ HandleAlert(i, FALSE)
        \/ HandleHello(i, FALSE)
        \/ AlertExpires(i)

Spec == Init /\ [][Next]_vars

\* Process 1 joins process 2, which was started alone
JoinVariants == {"basic", "stable"}

InitJoin ==
    /\ variant \in JoinVariants
    /\ InitFor("join", variant)

NextJoin ==
    \E i \in Proc :
        \/ Task0(i, FALSE)
        \/ Task1(i, FALSE, FALSE, MaxRoundWide)
        \/ HandleStart(i, FALSE)
        \/ HandleOk(i, FALSE)
        \/ HandleStop(i, FALSE)
        \/ HandleHello(i, FALSE)

SpecJoin == InitJoin /\ [][NextJoin]_vars

\* Two processes that know each other, crashes, the electors with a Stop or
\* the same confirmation rule
CrashVariants == {"stable", "On"}

InitCrash ==
    /\ variant \in CrashVariants
    /\ InitFor("pair", variant)

NextCrash ==
    \E i \in Proc :
        \/ Task0(i, FALSE)
        \/ Task1(i, FALSE, FALSE, RoundCap(variant))
        \/ HandleStart(i, FALSE)
        \/ HandleOk(i, FALSE)
        \/ HandleStop(i, FALSE)
        \/ Crash(i)

SpecCrash == InitCrash /\ [][NextCrash]_vars

\* The electors for lossy links with every datagram deliverable, the Acks
\* included, while timer 1 does not expire
LinksVariants == {"On", "O1"}

InitLinks ==
    /\ variant \in LinksVariants
    /\ InitFor("pair", variant)

NextLinks ==
    \E i \in Proc :
        \/ Task0(i, FALSE)
        \/ HandleStart(i, FALSE)
        \/ HandleOk(i, FALSE)
        \/ HandleAlert(i, FALSE)
        \/ HandleAck(i, FALSE)
        \/ AlertExpires(i)

SpecLinks == InitLinks /\ [][NextLinks]_vars

\* The electors for lossy links, process 1 leading round 0 and process 2
\* following: 1 sends Ok and takes the Acks, timer 1 of 2 may expire, so
\* that late Oks and Oks of an older round reach the follower
InitAcks ==
    /\ variant \in LinksVariants
    /\ InitFor("pair", variant)

NextAcks ==
    \/ Task0(1, FALSE)
    \/ Task1(2, FALSE, FALSE, MaxRoundWide)
    \/ HandleAck(1, FALSE)
    \/ \E i \in Proc : HandleOk(i, FALSE)

SpecAcks == InitAcks /\ [][NextAcks]_vars

\* Any of the four electors, two processes: task 0 at the leaders and the
\* followers of every round, before close() and on the thread close() did
\* not stop
InitBeat ==
    /\ variant \in Variants
    /\ InitFor("pair", variant)

NextBeat ==
    \E i \in Proc :
        \/ Task0(i, FALSE)
        \/ Task1(i, FALSE, FALSE, MaxRound)
        \/ HandleStart(i, FALSE)
        \/ Close(i, FALSE)
        \/ LateTask0(i)

SpecBeat == InitBeat /\ [][NextBeat]_vars

\* The stable elector on reliable links, two processes, with the Stop of a
\* process that timed out delivered at any later time
InitStop ==
    /\ variant = "stable"
    /\ InitFor("pair", variant)

NextStop ==
    \E i \in Proc :
        \/ Task0(i, FALSE)
        \/ Task1(i, FALSE, FALSE, MaxRound)
        \/ HandleStart(i, FALSE)
        \/ HandleOk(i, FALSE)
        \/ HandleStop(i, FALSE)

SpecStop == InitStop /\ [][NextStop]_vars

\* The O(1) elector, two processes of which the second may time out, with
\* the Alerts of every round started delivered in any order
InitAlert ==
    /\ variant = "O1"
    /\ InitFor("pair", variant)

NextAlert ==
    \/ Task1(2, FALSE, FALSE, MaxRoundWide)
    \/ \E i \in Proc :
        \/ Task0(i, FALSE)
        \/ HandleOk(i, FALSE)
        \/ HandleAlert(i, FALSE)
        \/ AlertExpires(i)

SpecAlert == InitAlert /\ [][NextAlert]_vars

\* The basic elector, two processes with Byes on their way, the second of
\* which may time out and lead round 1
InitShrink ==
    /\ variant = "basic"
    /\ InitFor("leave", variant)

NextShrink ==
    \/ Task1(2, FALSE, FALSE, MaxRoundWide)
    \/ \E i \in Proc :
        \/ Task0(i, FALSE)
        \/ HandleStart(i, FALSE)
        \/ HandleBye(i, FALSE)

SpecShrink == InitShrink /\ [][NextShrink]_vars

\* restartTimer statement by statement, on the dispatcher thread (called by
\* a handler) and on the thread of the Timer that has fired (called by
\* task1 through startRound): the method takes no lock.  calc holds
\* self.__timer (handle; Timers are numbered as they are created, made of
\* them so far), the Timers started (started), those cancelled (cancelled)
\* and those started that have neither fired nor been cancelled (pending),
\* and where each thread is in
\* the method (dpc, tpc; tid is the Timer whose callback runs).
InitTimers ==
    /\ variant \in {"basic", "stable"}
    /\ st = [i \in Proc |-> NewPeer(variant, i, {})]
    /\ msgs = {}
    /\ alive = [i \in Proc |-> TRUE]
    /\ hist = [i \in Proc |-> [notes |-> <<>>, okseen |-> 0, changed |-> FALSE]]
    /\ calc = [fn |-> "timer", handle |-> None, made |-> 0, started |-> {}, pending |-> {},
               cancelled |-> {}, dpc |-> "idle", tpc |-> "none", tid |-> None]

\* "if self.__timer is not None: if current_thread() != self.__timer:
\* self.__timer.cancel()", run by thread me (0: not a Timer)
timerCancel(c, me) ==
    IF c.handle # None /\ c.handle # me
    THEN [c EXCEPT !.pending = @ \ {c.handle}, !.cancelled = @ \cup {c.handle}]
    ELSE c

\* "self.__timer = Timer(self.__timeout, type(self).task1, args=(self,))"
timerAssign(c) == [c EXCEPT !.made = @ + 1, !.handle = c.made + 1]

\* "self.__timer.start()": starts the Timer self.__timer refers to now; a
\* Timer that was started before raises RuntimeError, and one that was
\* cancelled before never calls task1
timerStart(c) ==
    IF c.handle \in c.started THEN c
    ELSE [c EXCEPT !.started = @ \cup {c.handle},
                   !.pending = IF c.handle \in c.cancelled THEN @ ELSE @ \cup {c.handle}]

\* A handler on the dispatcher thread calls restartTimer
HandlerRestarts ==
    /\ calc.fn = "timer" /\ calc.dpc = "idle" /\ calc.made < MaxTimers
    /\ calc' = [timerCancel(calc, 0) EXCEPT !.dpc = "assign"]
    /\ UNCHANGED <<variant, st, msgs, alive, hist>>

DispatcherAssigns ==
    /\ calc.fn = "timer" /\ calc.dpc = "assign"
    /\ calc' = [timerAssign(calc) EXCEPT !.dpc = "start"]
    /\ UNCHANGED <<variant, st, msgs, alive, hist>>

DispatcherStarts ==
    /\ calc.fn = "timer" /\ calc.dpc = "start"
    /\ calc' = [timerStart(calc) EXCEPT !.dpc = "idle"]
    /\ UNCHANGED <<variant, st, msgs, alive, hist>>

\* A pending Timer fires: its thread runs task1, which gets to restartTimer
TimerFires ==
    /\ calc.fn = "timer" /\ calc.tpc = "none" /\ calc.made < MaxTimers
    /\ \E x \in calc.pending :
         calc' = [calc EXCEPT !.pending = @ \ {x}, !.tid = x, !.tpc = "cancel"]
    /\ UNCHANGED <<variant, st, msgs, alive, hist>>

CallbackCancels ==
    /\ calc.fn = "timer" /\ calc.tpc = "cancel"
    /\ calc' = [timerCancel(calc, calc.tid) EXCEPT !.tpc = "assign"]
    /\ UNCHANGED <<variant, st, msgs, alive, hist>>

CallbackAssigns ==
    /\ calc.fn = "timer" /\ calc.tpc = "assign"
    /\ calc' = [timerAssign(calc) EXCEPT !.tpc = "start"]
    /\ UNCHANGED <<variant, st, msgs, alive, hist>>

CallbackStarts ==
    /\ calc.fn = "timer" /\ calc.tpc = "start"
    /\ calc' = [timerStart(calc) EXCEPT !.tpc = "none", !.tid = None]
    /\ UNCHANGED <<variant, st, msgs, alive, hist>>

NextTimers ==
    \/ HandlerRestarts
    \/ DispatcherAssigns
    \/ DispatcherStarts
    \/ TimerFires
    \/ CallbackCancels
    \/ CallbackAssigns
    \/ CallbackStarts

SpecTimers == InitTimers /\ [][NextTimers]_vars

\* The arguments discard is run on: the age of the datagram, the offset
\* statistics (avg, stddev, n) kept for its source, and d
DiscardArgs ==
    [age : {0, 40, 50, 60}, avg : {-30, -10, 0, 20, 30}, stddev : {0, 2, 10},
     cnt : {0, 1, 9, 10, 20}, d : {50, 100}]

\* The arguments of an Ack reaching handleAckMessage: an Ok stamped t1 on
\* the receiver's clock takes d1 to the peer, whose clock is off ahead and
\* runs at the same rate ("all clocks have a similar drift"); the peer
\* answers proc later and the Ack takes d2 back.  known: the peer is in the
\* table; on, dn: the samples kept for it; avg, d: its offset average and
\* the bound discard would test the Ack against.
AckArgs ==
    [known : BOOLEAN, on : {0, 1, 9}, dn : {0, 1, 9}, t1 : {0, 100},
     off : {-20, 0, 20}, d1 : {0, 10}, proc : {0, 5}, d2 : {0, 10, 60}]

AckT2(a) == a.t1 + a.d1 + a.off
AckT3(a) == AckT2(a) + a.proc
AckT4(a) == a.t1 + a.d1 + a.proc + a.d2

InitStats ==
    /\ variant = "On"
    /\ st = [i \in Proc |-> NewPeer("On", i, {})]
    /\ msgs = {}
    /\ alive = [i \in Proc |-> TRUE]
    /\ hist = [i \in Proc |-> [notes |-> <<>>, okseen |-> 0, changed |-> FALSE]]
    /\ calc \in {[fn |-> "discard", arg |-> a, out |-> <<>>] : a \in DiscardArgs}
              \cup {[fn |-> "ack", arg |-> a, out |-> <<>>] : a \in AckArgs}

\* discard is called
RunDiscard ==
    /\ calc.fn = "discard"
    /\ calc.out = <<>>
    /\ calc' = [calc EXCEPT !.out = <<discardStat(calc.arg.age, calc.arg.avg, calc.arg.stddev,
                                                  calc.arg.cnt, calc.arg.d)>>]
    /\ UNCHANGED <<variant, st, msgs, alive, hist>>

\* handleAckMessage is called
RunAck ==
    /\ calc.fn = "ack"
    /\ calc.out = <<>>
    /\ calc' = [calc EXCEPT !.out = <<ackHandled(calc.arg.known, calc.arg.on, calc.arg.dn,
                                                 calc.arg.t1, AckT2(calc.arg),
                                                 AckT3(calc.arg), AckT4(calc.arg))>>]
    /\ UNCHANGED <<variant, st, msgs, alive, hist>>

NextStats ==
    \/ RunDiscard
    \/ RunAck

SpecStats == InitStats /\ [][NextStats]_vars

\* Process 2 alone, process 1 constructed only, with the observer's record
\* kept
SoloVariants == {"basic", "stable"}

InitSolo ==
    /\ variant \in SoloVariants
    /\ InitFor("alone", variant)

NextSolo ==
    \E i \in Proc :
        \/ Task0(i, TRUE)
        \/ Task1(i, TRUE, FALSE, MaxRound)
        \/ HandleOk(i, TRUE)
        \/ HandleStop(i, TRUE)
        \/ HandleHello(i, TRUE)

SpecSolo == InitSolo /\ [][NextSolo]_vars

\* Two processes of the stable elector that know each other, with the
\* threads of timer 1 and of the dispatcher interleaved inside task1 and
\* startRound
ThreadVariants == {"stable"}

InitThreads ==
    /\ variant \in ThreadVariants
    /\ InitFor("pair", variant)

NextThreads ==
    \E i \in Proc :
        \/ Task0(i, FALSE)
        \/ Task1Read(i)
        \/ Task1Run(i)
        \/ ReceiveSplit(i, "Start")
        \/ ReceiveSplit(i, "Ok")
        \/ ReceiveSplit(i, "Stop")
        \/ FinishRound(i)

SpecThreads == InitThreads /\ [][NextThreads]_vars

\* Two processes one of which is not in the table of the other: process 1
\* joins process 2 (stable and O(1) electors), or is told by a Bye that the
\* other leaves (O(n) elector).  Timer 1 expires in the stable elector only.
StrangerVariants == {"stable", "On", "O1"}

InitStrangers ==
    /\ variant \in StrangerVariants
    /\ InitFor(IF variant = "On" THEN "leave" ELSE "join", variant)

NextStrangers ==
    \E i \in Proc :
        \/ Task0(i, FALSE)
        \/ Task1(i, FALSE, FALSE, IF variant = "stable" THEN MaxRoundWide ELSE 0)
        \/ HandleStart(i, FALSE)
        \/ HandleOk(i, FALSE)
        \/ HandleStop(i, FALSE)
        \/ HandleAlert(i, FALSE)
        \/ HandleAck(i, FALSE)
        \/ HandleBye(i, FALSE)
        \/ AlertExpires(i)

SpecStrangers == InitStrangers /\ [][NextStrangers]_vars

\* Two processes that know each other, whose observers may start to raise
ObserverVariants == {"basic", "stable"}

InitObserver ==
    /\ variant \in ObserverVariants
    /\ InitFor("pair", variant)

NextObserver ==
    \E i \in Proc :
        \/ Task0(i, FALSE)
        \/ Task1(i, FALSE, FALSE, MaxRoundWide)
        \/ HandleStart(i, FALSE)
        \/ HandleOk(i, FALSE)
        \/ HandleStop(i, FALSE)
        \/ ObserverBreaks(i)

SpecObserver == InitObserver /\ [][NextObserver]_vars

\* Two processes that know each other, either of which may be closed while
\* it serves
CloseVariants == {"basic", "stable"}

InitClose ==
    /\ variant \in CloseVariants
    /\ InitFor("pair", variant)

NextClose ==
    \E i \in Proc :
        \/ Task0(i, FALSE)
        \/ Task1(i, FALSE, FALSE, MaxRoundWide)
        \/ HandleStart(i, FALSE)
        \/ HandleOk(i, FALSE)
        \/ HandleStop(i, FALSE)
        \/ Close(i, FALSE)
        \/ Close(i, TRUE)
        \/ LateTask0(i)
        \/ LateTask1(i)

SpecClose == InitClose /\ [][NextClose]_vars

\* Two processes that know each other, and Bye on their way, before any
\* timer 1 expires
LeaveVariants == {"basic", "stable"}

InitLeave ==
    /\ variant \in LeaveVariants
    /\ InitFor("leave", variant)

NextLeave ==
    \E i \in Proc :
        \/ Task0(i, FALSE)
        \/ HandleStart(i, FALSE)
        \/ HandleOk(i, FALSE)
        \/ HandleHello(i, FALSE)
        \/ HandleBye(i, FALSE)

SpecLeave == InitLeave /\ [][NextLeave]_vars

\* Processes 1 and 3 join process 2 in round 0, before any timer 1 expires
StarVariants == {"stable"}

InitStar ==
    /\ variant \in StarVariants
    /\ InitFor("star", variant)

NextStar ==
    \E i \in Proc :
        \/ Task0(i, FALSE)
        \/ HandleStart(i, FALSE)
        \/ HandleOk(i, FALSE)
        \/ HandleHello(i, FALSE)

SpecStar == InitStar /\ [][NextStar]_vars

\* Three processes that know each other, with the observers' records kept,
\* timely links and crashes
NextScene ==
    \E i \in Proc :
        \/ Task0(i, TRUE)
        \/ Task1(i, TRUE, TRUE, MaxRound)
        \/ HandleStart(i, TRUE)
        \/ HandleOk(i, TRUE)
        \/ HandleStop(i, TRUE)
        \/ HandleHello(i, TRUE)
        \/ Crash(i)

SpecScene == InitScene /\ [][NextScene]_vars

\* The same without the observers' records
NextTimely ==
    \E i \in Proc :
        \/ Task0(i, FALSE)
        \/ Task1(i, FALSE, TRUE, MaxRound)
        \/ HandleStart(i, FALSE)
        \/ HandleOk(i, FALSE)
        \/ HandleStop(i, FALSE)
        \/ HandleHello(i, FALSE)
        \/ Crash(i)

\* A datagram reaches process i
Deliver(i) ==
    \/ HandleStart(i, FALSE)
    \/ HandleOk(i, FALSE)
    \/ HandleStop(i, FALSE)
    \/ HandleHello(i, FALSE)

\* Every process's timer 0 keeps firing, its timer 1 fires when it is due, and
\* datagrams sent to it keep being received
Fairness ==
    \A i \in Proc :
        /\ WF_vars(Task0(i, FALSE))
        /\ WF_vars(Task1(i, FALSE, TRUE, MaxRound))
        /\ WF_vars(Deliver(i))

FairSpec == InitScene /\ [][NextTimely]_vars /\ Fairness

----------------------------------------------------------------------------
(* Properties *)

\* C1: at every process and in every variant the round r never decreases
\* over any step (timer-1 expiry, Start/Ok/Stop/Alert/Ack/Hello handler, each
\* atomic).
C1_RoundNeverDecreases ==
    [][\A i \in Proc : st'[i].r >= st[i].r]_vars

\* A process has left round 0 and a Start or Ok of an older round can still
\* reach it.
C1_Witness ==
    \E i \in Proc : \E m \in msgs :
        /\ st[i].r > 0
        /\ m.dst = i /\ m.type \in {"Start", "Ok"} /\ m.round < st[i].r

\* C2: whenever the leader view of a process is not none it equals r mod n,
\* n the current size of the process's table, also after the table changed
\* size.
C2_LeaderIsRoundModN ==
    \A i \in Proc :
        (st[i].started /\ st[i].leader # None) => st[i].leader = st[i].r % n(st[i])

C4_TableSortedWithSelf ==
    \A i \in Proc :
        st[i].started => (i \in Range(st[i].peers) /\ IsSorted(st[i].peers))

\* C5: in the stable variants a process holds a leader view other than none
\* only after it went through two Ok of its round since it entered the round.
C5_TwoOkBeforeLeader ==
    variant \in StableVariants =>
        \A i \in Proc :
            (st[i].started /\ st[i].leader # None) => hist[i].okseen >= 2

\* C6: with timers firing, sent datagrams received and Ok in time, the
\* processes that have not crashed end up with one and the same leader view,
\* which is not none and designates a process that has not crashed.
C6_Convergence ==
    (variant = "stable") =>
        <>[](\A i \in Proc : alive[i] =>
                /\ st[i].leader # None
                /\ st[i].leader < n(st[i])
                /\ alive[st[i].peers[st[i].leader + 1]]
                /\ \A j \in Proc : alive[j] => st[j].leader = st[i].leader)

C8_FollowerConfirmsNewLeader ==
    (/\ variant = "stable"
     /\ ~alive[1] /\ alive[2] /\ alive[3]
     /\ st[2].r = 1 /\ st[3].r = 1
     /\ Len(hist[3].notes) >= 3 /\ SubSeq(hist[3].notes, 1, 3) = <<None, 0, None>>
     /\ hist[3].okseen >= 2)
    => st[3].leader = 1

\* C9: a process that has not crashed and is in a round r whose designated
\* leader has crashed gets to a round above r (timers fire, Ok come in time
\* from a leader that runs).
C9_CrashedLeaderIsLeftBehind ==
    \A i \in Proc : \A k \in 0..(MaxRound - 1) :
        (alive[i] /\ st[i].r = k /\ ~alive[Designated(i)])
            ~> (st[i].r > k \/ ~alive[i])

\* The leader of round 0 has crashed and a running process is in round 1.
C9_Witness ==
    \E i \in Proc : alive[i] /\ ~alive[1] /\ st[i].r = 1

\* C10 as stated: three processes, StableLeaderElector, no timer-1 expiry:
\* when a follower (process 2 or 3) has confirmed leader 0 in round 0, its
\* observer was notified once, of leader view 0.
C10_NotifiedOnce ==
    \A i \in {2, 3} :
        (variant = "stable" /\ st[i].r = 0 /\ st[i].leader = 0)
            => hist[i].notes = <<0>>

\* C10 as the code has it: the observer was notified twice, by startRound(0)
\* of leader view none and by the confirmation of leader view 0.
C10_NotifiedAtStartAndConfirm ==
    \A i \in {2, 3} :
        (variant = "stable" /\ st[i].r = 0 /\ st[i].leader = 0)
            => hist[i].notes = <<None, 0>>

\* Both followers have confirmed leader 0 in round 0, nobody has crashed.
C10_Witness ==
    /\ variant = "stable"
    /\ \A i \in Proc : alive[i]
    /\ \A i \in {2, 3} : st[i].r = 0 /\ st[i].leader = 0

\* C11: in the basic and the stable elector, handling an Ok of a round below
\* the process's round leaves the whole state of the process as it was (round,
\* leader view, okcount, table, dirty flag, timer 1) and sends nothing.
C11_StaleOkIgnored ==
    variant \in {"basic", "stable"} =>
        \A i \in Proc : \A m \in Deliverable(i, "Ok") :
            (Running(i) /\ m.round < st[i].r) =>
                \A raises \in Raises(variant, "Ok") :
                    /\ handle(variant, st[i], i, m, FALSE, raises).s = st[i]
                    /\ handle(variant, st[i], i, m, FALSE, raises).out = {}

\* C12: in the electors for lossy links, handling a Start or Ok of a round
\* below the process's round that is not discarded sends a Start of the
\* process's round back to the sender, leaves round and leader view as they
\* were, and raises nothing.
C12_StaleGetsStartBack ==
    variant \in LossyVariants =>
        \A i \in Proc : \A m \in Deliverable(i, "Start") \cup Deliverable(i, "Ok") :
            (Running(i) /\ m.round < st[i].r /\ m.src \in Range(st[i].peers)) =>
                LET res == handle(variant, st[i], i, m, FALSE, FALSE)
                IN /\ StartMsg(i, m.src, st[i].r) \in res.out
                   /\ res.s.r = st[i].r
                   /\ res.s.leader = st[i].leader
                   /\ ~res.err

\* C13: in the O(1) elector, handling an Ok(k) while the alert on record has
\* a round above k and was recorded at most 6d ago never sets the leader view
\* to an index, however many Ok(k) the process has counted.
C13_AlertHoldsConfirmation ==
    variant = "O1" =>
        \A i \in Proc : \A m \in Deliverable(i, "Ok") :
            (Running(i) /\ st[i].alert.fresh /\ st[i].alert.round > m.round) =>
                \A late \in Lates(variant) :
                    LET res == handle(variant, st[i], i, m, late, FALSE)
                    IN /\ \A j \in 1..Len(res.nt) : res.nt[j] = None
                       /\ res.s.leader \in {st[i].leader, None}

\* A process without leader view that has counted two Ok or more holds a
\* recent alert of a round above its own and can receive an Ok of its round.
C13_Witness ==
    /\ variant = "O1"
    /\ \E i \in Proc : \E m \in Deliverable(i, "Ok") :
          /\ Running(i) /\ st[i].leader = None /\ st[i].okcount >= 2
          /\ st[i].alert.fresh /\ st[i].alert.round > st[i].r
          /\ m.round = st[i].r

\* C14: on a Hello, a process that believes itself leader ends with the
\* carried address in its table and the dirty flag set; a process that is not
\* the leader and holds leader view l, l = 0 included, forwards the Hello to
\* peers[l]; with leader view none nothing is sent.
C14_HelloAddedOrForwarded ==
    variant \in BaseVariants =>
        \A i \in Proc : \A m \in Deliverable(i, "Hello") :
            Running(i) =>
                LET res == handle(variant, st[i], i, m, FALSE, FALSE)
                IN /\ isLeader(st[i], i) =>
                        (m.addr \in Range(res.s.peers) /\ res.s.dirty)
                   /\ (~isLeader(st[i], i) /\ st[i].leader # None /\ st[i].leader < n(st[i])) =>
                        HelloMsg(i, st[i].peers[st[i].leader + 1], m.addr) \in res.out
                   /\ st[i].leader = None => res.out = {}

\* C15: when a Hello has changed the table of a process since its task 0
\* last sent Ok, the Ok its task 0 sends next carry the full table, not its
\* size only.
C15_ChangedTableIsSent ==
    \A i \in Proc :
        (Running(i) /\ hist[i].changed) =>
            \A m \in task0(variant, st[i], i).out : m.pcount = None /\ m.plist = st[i].peers

\* C16: in the basic, stable and O(1) electors, a process that handles the Ok
\* of another process ends with its table equal to the sequence the Ok
\* carries, and with its table as it was when the Ok carries a size only.
C16_OkTableAdopted ==
    variant \in {"basic", "stable", "O1"} =>
        \A i \in Proc : \A m \in Deliverable(i, "Ok") :
            (Running(i) /\ m.src # i) =>
                \A raises \in Raises(variant, "Ok") :
                    LET res == handle(variant, st[i], i, m, FALSE, raises)
                    IN IF m.pcount = None THEN res.s.peers = m.plist
                       ELSE res.s.peers = st[i].peers

\* C17: in the basic and stable electors, a process that believes itself
\* leader ends the handling of a Bye without error, with the address the Bye
\* carries not in its table and its table dirty, whether the address was in
\* the table or not; a process that is not leader and whose leader view is an
\* index l, 0 included, forwards the Bye to peers[l].
C17_ByeRemovedOrForwarded ==
    variant \in {"basic", "stable"} =>
        \A i \in Proc : \A m \in Deliverable(i, "Bye") :
            Running(i) =>
                LET s == st[i]
                    res == handle(variant, s, i, m, FALSE, FALSE)
                IN /\ isLeader(s, i) =>
                        (~res.err /\ m.addr \notin Range(res.s.peers) /\ res.s.dirty)
                   /\ (~isLeader(s, i) /\ s.leader # None /\ s.leader < n(s)) =>
                        ByeMsg(i, s.peers[s.leader + 1], m.addr, m.has) \in res.out

\* C18: startRound(k) of a process with index p and a table of n entries
\* sends no Start when k mod n = p; when k mod n # p it sends Start(k) to the
\* entry k mod n of the table and to no other (basic and stable electors), or
\* to every entry of the table (electors for lossy links).
C18_StartToDesignated ==
    \A i \in Proc : \A k \in 0..MaxRound :
        Running(i) =>
            LET s == st[i]
                res == startRound(variant, s, i, k)
                starts == {m \in res.out : m.type = "Start"}
            IN IF k % n(s) = p(s, i) THEN starts = {}
               ELSE IF variant \in LossyVariants
               THEN starts = {StartMsg(i, d, k) : d \in Range(res.s.peers)}
               ELSE starts = {StartMsg(i, s.peers[(k % n(s)) + 1], k)}

\* A process for lossy links that is not designated for the round it started
\* has sent the Start of that round to every entry of its table, and the one
\* designated for it has sent none
C18_Witness ==
    /\ variant \in LossyVariants
    /\ \E i \in Proc :
        /\ Running(i) /\ st[i].r = 1 /\ p(st[i], i) # 1 % n(st[i])
        /\ \A d \in Range(st[i].peers) : StartMsg(i, d, 1) \in msgs
    /\ \E j \in Proc :
        /\ Running(j) /\ st[j].r = 1 /\ p(st[j], j) = 1 % n(st[j])
        /\ \A m \in msgs : ~(m.type = "Start" /\ m.src = j /\ m.round = 1)

\* C19: a process whose table has one entry is the designated leader of its
\* round, its task 0 sends Ok to the process itself only, and its task 1
\* leaves round, leader view and okcount as they are.
C19_SoleProcessTask1Idle ==
    \A i \in Proc :
        (Running(i) /\ n(st[i]) = 1 /\ st[i].r < MaxRound) =>
            LET s == st[i]
                t1 == task1(variant, [s EXCEPT !.timer = FALSE], i)
            IN /\ p(s, i) = s.r % n(s)
               /\ \A m \in task0(variant, s, i).out : m.type = "Ok" /\ m.dst = i
               /\ t1.s.r = s.r /\ t1.s.leader = s.leader /\ t1.s.okcount = s.okcount

\* C19 (amended): a process whose table has one entry is the designated leader
\* of its round, its task 0 sends Ok to the process itself only, and its task
\* 1 takes it to the next round, of which it is the designated leader again,
\* with no Start sent and okcount as it was; the leader view is then 0 in the
\* basic elector and none in the stable one.
C19_SoleProcessNextRound ==
    \A i \in Proc :
        (Running(i) /\ n(st[i]) = 1 /\ st[i].r < MaxRound) =>
            LET s == st[i]
                t1 == task1(variant, [s EXCEPT !.timer = FALSE], i)
            IN /\ p(s, i) = s.r % n(s)
               /\ task0(variant, s, i).out # {}
               /\ \A m \in task0(variant, s, i).out : m.type = "Ok" /\ m.dst = i
               /\ t1.s.r = s.r + 1 /\ p(t1.s, i) = t1.s.r % n(t1.s)
               /\ t1.s.okcount = s.okcount
               /\ t1.s.leader = (IF variant = "basic" THEN 0 ELSE None)
               /\ \A m \in t1.out : m.type # "Start"
               /\ t1.s.timer

\* A sole process whose task 1 has fired and whose task 0 ran in the new round
C19_Witness ==
    \E i \in Proc :
        /\ Running(i) /\ n(st[i]) = 1 /\ st[i].r = 1
        /\ OkMsg(i, i, 1, <<>>, 1, FALSE) \in msgs

\* C20: in the stable electors, startRound(s) of a process that is in round s
\* leaves its round and its leader view as they are, a confirmed leader
\* included, and leaves timer 1 pending.
C20_StartRoundKeepsLeader ==
    variant \in StableVariants =>
        \A i \in Proc :
            Running(i) =>
                LET s == [st[i] EXCEPT !.timer = FALSE]
                    res == startRound(variant, s, i, s.r)
                IN res.s.r = s.r /\ res.s.leader = s.leader /\ res.s.timer

\* C20 (amended): in the stable electors, startRound(s) of a process that is
\* in round s leaves its round as it is, sets its leader view to none, of
\* which the observer is notified, and leaves timer 1 pending; a second
\* startRound(s) leaves the local state as the first left it.
C20_StartRoundClearsLeader ==
    variant \in StableVariants =>
        \A i \in Proc :
            Running(i) =>
                LET s == [st[i] EXCEPT !.timer = FALSE]
                    res == startRound(variant, s, i, s.r)
                IN /\ res.s.r = s.r /\ res.s.leader = None /\ res.s.timer
                   /\ res.nt = <<None>>
                   /\ res.s.okcount = s.okcount
                   /\ startRound(variant, res.s, i, s.r).s = res.s

\* A process of a stable elector that confirmed the leader of the round it
\* started
C20_Witness ==
    /\ variant \in StableVariants
    /\ \E i \in Proc :
        /\ Running(i) /\ st[i].leader # None /\ st[i].leader = st[i].r % n(st[i])
        /\ st[i].r = 1

\* C21: the callback of task 0 or of task 1 that runs after close() has set
\* the closing flag leaves the round and the leader view as they are, sends
\* nothing and starts no timer.
C21_ClosingCallbacksIdle ==
    \A i \in Proc :
        (Running(i) /\ st[i].closing) =>
            LET s == st[i]
                t0 == task0(variant, s, i)
                t1 == task1(variant, s, i)
            IN /\ s.fly0 => (t0.s.r = s.r /\ t0.s.leader = s.leader
                             /\ t0.out = {} /\ t0.s.timer = s.timer)
               /\ s.fly1 => (t1.s.r = s.r /\ t1.s.leader = s.leader
                             /\ t1.out = {} /\ t1.s.timer = s.timer)

\* C22: once close() has returned no timer 1 is pending and no callback of
\* task 1 is still to run.
C22_NoTimerAfterClose ==
    \A i \in Proc : st[i].closed => (~st[i].timer /\ ~st[i].fly1)

\* C23: the round of a process never decreases from one step to the next,
\* with task1 on the thread of timer 1 interleaved with the handlers of the
\* dispatcher thread.
C23_RoundNeverDecreasesInterleaved ==
    [][\A i \in Proc : Running(i) => st'[i].r >= st[i].r]_vars

\* C24: no state shows a process whose round was advanced by a startRound
\* that is still running and whose leader view is still a confirmed leader.
C24_RoundAndLeaderTogether ==
    \A i \in Proc : st[i].mid => st[i].leader = None

\* C25: at a process whose observer raises in notify, a task 1 and a handler
\* that notify the observer end without error, with the round and the leader
\* view of which the observer was notified, and with timer 1 pending.
C25_ObserverErrorSwallowed ==
    \A i \in Proc :
        (Running(i) /\ st[i].boom) =>
            LET s == [st[i] EXCEPT !.timer = FALSE]
                ends(res) == res.nt # <<>> =>
                                (~res.err /\ res.s.timer /\ res.s.leader = res.nt[Len(res.nt)])
            IN /\ ends(task1(variant, s, i))
               /\ \A m \in {x \in msgs : x.dst = i /\ x.type \in {"Start", "Ok", "Stop"}
                                          /\ Handles(variant, x.type)} :
                      ends(handle(variant, s, i, m, FALSE, FALSE))

\* The Ok, Stop and Ack on their way to process i whose source is not in the
\* table of i
FromStranger(i) ==
    {m \in msgs : /\ m.dst = i /\ m.type \in {"Ok", "Stop", "Ack"}
                  /\ Handles(variant, m.type)
                  /\ m.src \notin Range(st[i].peers)}

C27_StrangerStartAccepted ==
    \A i \in Proc : \A m \in Deliverable(i, "Start") :
        (Running(i) /\ m.src \notin Range(st[i].peers)) =>
            LET res == handle(variant, st[i], i, m, FALSE, FALSE)
            IN /\ ~res.err
               /\ m.src \in Range(res.s.peers)
               /\ m.round > st[i].r => res.s.r = m.round


\* C28: discard returns what the documented rule gives, for every age,
\* statistics and d: never with no samples, else exactly when
\* age + avg + k * sigma > d, with k = 3 (-3 when avg < 0) and sigma = |avg| / 3
\* with fewer than 10 samples; avg = 20, sigma = 2, n = 20, age 50 is accepted
\* for d = 100 and discarded for d = 50.
C28_DiscardFollowsRule ==
    (calc.fn = "discard" /\ calc.out # <<>>) =>
        /\ calc.out[1] = discardRule(calc.arg.age, calc.arg.avg, calc.arg.stddev,
                                     calc.arg.cnt, calc.arg.d)
        /\ (calc.arg.avg = 20 /\ calc.arg.stddev = 2 /\ calc.arg.cnt = 20 /\ calc.arg.age = 50)
               => (calc.out[1] <=> calc.arg.d = 50)

\* C29: an Ack of a peer in the table is processed whatever its age, the
\* sample counts of the offset and of the delay kept for the peer are each
\* one more than before, and the delay sample D is not negative.
C29_AckCountedOnce ==
    (calc.fn = "ack" /\ calc.out # <<>> /\ calc.arg.known) =>
        /\ calc.out[1].done
        /\ calc.out[1].on = calc.arg.on + 1
        /\ calc.out[1].dn = calc.arg.dn + 1
        /\ calc.out[1].twoD >= 0

\* An Ack older than d by the test of discard has been processed
C29_Witness ==
    /\ calc.fn = "ack" /\ calc.out # <<>> /\ calc.arg.known
    /\ calc.arg.on > 0
    /\ discardStat(AckT4(calc.arg) - AckT3(calc.arg) + calc.arg.off, 0, 0, calc.arg.on, 50)
    /\ calc.out[1].done

\* The Ok counter of sendAckIfNeeded after one more Ok
AckStep(c) == IF c = 1 THEN AckEvery ELSE c - 1

\* The handler's run res sends an Ack
SendsAck(res) == \E a \in res.out : a.type = "Ack"

Oks(res) == {m \in res.out : m.type = "Ok"}

\* Task 0 of process i can fire: it serves and close() has not stopped the
\* timer, or its callback is already running
Task0Due(i) == Running(i) /\ (~st[i].closed \/ st[i].fly0)

\* p == r mod n at process i
DesignatedSelf(i) == p(st[i], i) = st[i].r % n(st[i])

\* Every Ok of the run res of task 0 of process i carries the round of i,
\* and there is one for every peer of the table of i
OkToAll(i, res) ==
    /\ \A m \in Oks(res) : m.src = i /\ m.round = st[i].r
    /\ Oks(res) # {} => {m.dst : m \in Oks(res)} = Range(st[i].peers)

\* C31 (as claimed): a firing of task 0 sends Ok exactly when p == r mod n;
\* every Ok carries the round of the sender and every peer of its table gets
\* one.
C31_OkIffDesignated ==
    \A i \in Proc : Task0Due(i) =>
        LET res == task0(variant, st[i], i)
        IN /\ Oks(res) # {} <=> DesignatedSelf(i)
           /\ OkToAll(i, res)

\* C31 (amended): a firing of task 0 sends Ok exactly when p == r mod n and
\* the elector is not a basic one that is closing; the closing basic leader
\* shuts down instead.  Every Ok carries the round of the sender and every
\* peer of its table gets one.
C31_OkIffDesignatedAndOpen ==
    \A i \in Proc : Task0Due(i) =>
        LET res == task0(variant, st[i], i)
            shuts == variant = "basic" /\ st[i].closing
        IN /\ Oks(res) # {} <=> (DesignatedSelf(i) /\ ~shuts)
           /\ OkToAll(i, res)
           /\ (DesignatedSelf(i) /\ shuts) => (~res.s.started /\ res.out = {})

\* The closing leader of round 1, which has sent Ok for that round, with the
\* callback of task 0 about to run
C31_Witness ==
    \E i \in Proc :
        /\ variant = "basic" /\ Task0Due(i) /\ st[i].closing /\ st[i].fly0
        /\ DesignatedSelf(i) /\ st[i].r = 1
        /\ \E m \in msgs : m.type = "Ok" /\ m.src = i /\ m.round = 1

\* C32: in the stable variants a Start or an Ok of a round k > r that the
\* handler takes leaves the process in round k with okcount 0, and okcount
\* is 0 whenever a handler or task 1 has just taken the process into another
\* round.
C32_NewRoundOkcountZero ==
    variant \in StableVariants =>
        \A i \in Proc : Running(i) =>
            /\ \A t \in {"Start", "Ok", "Stop"} : \A m \in Deliverable(i, t) :
                 \A late \in Lates(variant) :
                   LET res == handle(variant, st[i], i, m, late, FALSE)
                   IN /\ (t # "Stop" /\ m.round > st[i].r /\ res.acc /\ ~res.err)
                           => (res.s.r = m.round /\ res.s.okcount = 0)
                      /\ (Handles(variant, t) /\ res.s.r # st[i].r) => res.s.okcount = 0
            /\ st[i].timer =>
                 LET res == task1(variant, st[i], i)
                 IN res.s.r # st[i].r => res.s.okcount = 0

\* C33: in the stable elector on reliable links a Stop(k) of a peer of the
\* table with k >= r takes the receiver into round k + 1 with no leader
\* view; a Stop(k) with k < r leaves round, leader view, okcount and timer 1
\* as they are.
C33_StopStartsNextRound ==
    variant = "stable" =>
        \A i \in Proc : Running(i) =>
            \A m \in Deliverable(i, "Stop") :
                LET res == handle(variant, st[i], i, m, FALSE, FALSE)
                IN m.src \in Range(PeersAfterP(st[i], i)) =>
                     IF m.round >= st[i].r
                     THEN res.s.r = m.round + 1 /\ res.s.leader = None /\ ~res.err
                     ELSE /\ res.s.r = st[i].r /\ res.s.leader = st[i].leader
                          /\ res.s.okcount = st[i].okcount /\ res.s.timer = st[i].timer
                          /\ ~res.err

\* A process that has confirmed the leader of its round can receive a Stop
\* of that round, and a process can receive a Stop of an older round
C33_Witness ==
    /\ variant = "stable"
    /\ \E i \in Proc : Running(i) /\ st[i].leader # None
          /\ \E m \in Deliverable(i, "Stop") : m.round = st[i].r
    /\ \E i \in Proc : Running(i)
          /\ \E m \in Deliverable(i, "Stop") : m.round < st[i].r

\* C34: in the O(1) elector no handler and no task lowers the round of the
\* alert on record; after an Alert(k) that the handler takes that round is
\* at least k; an Alert with k > r leaves no leader view, one with k <= r
\* leaves the leader view as it is, and the round of the process is unchanged
\* by either.
C34_AlertRoundKept ==
    variant = "O1" =>
        \A i \in Proc : Running(i) =>
            /\ \A t \in {"Start", "Ok", "Alert", "Ack"} : \A m \in Deliverable(i, t) :
                 \A late \in Lates(variant) :
                   LET res == handle(variant, st[i], i, m, late, FALSE)
                   IN /\ res.s.alert.round >= st[i].alert.round
                      /\ (t = "Alert" /\ res.acc) =>
                            /\ res.s.alert.round >= m.round
                            /\ res.s.r = st[i].r
                            /\ res.s.leader = (IF m.round > st[i].r THEN None ELSE st[i].leader)
                            /\ ~res.err
            /\ task0(variant, st[i], i).s.alert.round >= st[i].alert.round
            /\ task1(variant, st[i], i).s.alert.round >= st[i].alert.round

\* A process with a confirmed leader can receive an Alert of a round above
\* its own, and a process that has an Alert of round 1 on record can receive
\* an Alert of round 0
C34_Witness ==
    /\ variant = "O1"
    /\ \E i \in Proc : Running(i) /\ st[i].leader # None
          /\ \E m \in Deliverable(i, "Alert") : m.round > st[i].r
    /\ \E i \in Proc : Running(i)
          /\ \E m \in Deliverable(i, "Alert") : m.round < st[i].alert.round

C36_ClosingFollowerSaysBye ==
    variant = "basic" =>
        \A i \in Proc :
            (Running(i) /\ st[i].closing /\ st[i].fly0
               /\ ~DesignatedSelf(i) /\ st[i].leader # None) =>
                LET res == task0(variant, st[i], i)
                IN /\ \E m \in res.out :
                        m.type = "Bye" /\ m.src = i /\ m.dst = st[i].peers[st[i].leader + 1]
                   /\ ~res.s.started

\* C37: the leader view of a process is none or an index of its table,
\* 0 <= l < n, also after a Bye has shortened the table, so that peers[leader]
\* is there when a Hello or a Bye is forwarded.
C37_LeaderViewInTable ==
    \A i \in Proc : Running(i) =>
        (st[i].leader = None \/ (0 <= st[i].leader /\ st[i].leader < n(st[i])))

\* C38: at most one Timer of task 1 is pending at any time, however the
\* restartTimer of a handler on the dispatcher thread and the restartTimer
\* run inside the callback of task 1 interleave.
C38_OneTimerPending ==
    calc.fn = "timer" => Cardinality(calc.pending) <= 1

\* The late datagram m of type t is one that the handler of process i hands
\* to discard and that discard rejects: statistics of the source are there
\* (for an Ok, those the Ok itself carries; the O(n) elector has dropped the
\* Ok of an unknown source before)
Rejected(i, t, m) ==
    IF t = "Ok"
    THEN m.has /\ (variant = "On" => m.src \in Range(st[i].peers))
    ELSE m.src \in st[i].info

\* C39 (as claimed): in the lossy variants a datagram that discard rejects
\* as late leaves everything as it was: round, leader view, okcount, table,
\* statistics, Ok counter and timer 1, and nothing is sent.
C39_DiscardedChangesNothing ==
    variant \in LossyVariants =>
        \A i \in Proc : Running(i) =>
            \A t \in {"Start", "Ok", "Alert"} : \A m \in Deliverable(i, t) :
                (Handles(variant, t) /\ Rejected(i, t, m)) =>
                    LET res == handle(variant, st[i], i, m, TRUE, FALSE)
                    IN res.s = st[i] /\ res.out = {}

\* C39 (amended): a datagram that discard rejects as late leaves round,
\* leader view, okcount, table, Ok counter and timer 1 as they were and
\* nothing is sent; a rejected Start or Alert leaves the statistics too,
\* while a rejected Ok has replaced the statistics kept for its source by
\* those it carries before discard is asked.
C39_DiscardedKeepsAllButOkStats ==
    variant \in LossyVariants =>
        \A i \in Proc : Running(i) =>
            \A t \in {"Start", "Ok", "Alert"} : \A m \in Deliverable(i, t) :
                (Handles(variant, t) /\ Rejected(i, t, m)) =>
                    LET res == handle(variant, st[i], i, m, TRUE, FALSE)
                    IN /\ res.out = {}
                       /\ ~res.acc /\ ~res.err
                       /\ res.s = [st[i] EXCEPT !.info = IF t = "Ok" THEN @ \cup {m.src} ELSE @]

\* A process that holds no statistics of the leader can receive a late Ok
\* that brings them, and a process can receive a late Start of a peer it
\* holds statistics of
C39_Witness ==
    /\ variant \in LossyVariants
    /\ \E i \in Proc : Running(i)
          /\ \E m \in Deliverable(i, "Ok") : Rejected(i, "Ok", m) /\ m.src \notin st[i].info
    /\ \E i \in Proc : Running(i)
          /\ \E m \in Deliverable(i, "Start") : Rejected(i, "Start", m)

\* C40 (as claimed): all the Ok datagrams of one round that were ever sent
\* come from one process, also while the tables of the processes differ.
C40_OneOkSenderPerRound ==
    \A m1 \in msgs : \A m2 \in msgs :
        (m1.type = "Ok" /\ m2.type = "Ok" /\ m1.round = m2.round) => m1.src = m2.src

\* The table process i works with when its task 0 runs
TableOf(i) == IF variant \in BaseVariants THEN st[i].peers ELSE PeersAfterP(st[i], i)

\* C40 (amended): two different processes that are in the same round and
\* hold the same table, the same addresses in the same order, do not both
\* send Ok when their task 0 fires.
C40_OneOkSenderPerTable ==
    \A i \in Proc : \A j \in Proc :
        (i # j /\ Running(i) /\ Running(j) /\ st[i].r = st[j].r /\ TableOf(i) = TableOf(j)) =>
            ~(Oks(task0(variant, st[i], i)) # {} /\ Oks(task0(variant, st[j], j)) # {})

\* Two processes with the same table are in round 1, and the one the table
\* designates has sent Ok for it
C40_Witness ==
    \E i \in Proc : \E j \in Proc :
        /\ i # j /\ Running(i) /\ Running(j)
        /\ st[i].r = 1 /\ st[j].r = 1 /\ TableOf(i) = TableOf(j)
        /\ \E m \in msgs : m.type = "Ok" /\ m.round = 1 /\ m.src = i /\ m.dst = j
====
